---- MODULE Spec2Model ----
(***************************************************************************)
(* The bulk job runner of the dashboard: the BulkJobProvider (bulk send)   *)
(* and the TrackEventProvider (bulk audience tracking) with their job      *)
(* store, run-control tokens, per-run loops and the elapsed-time ticker.   *)
(*                                                                         *)
(* Granularity: JavaScript runs one handler or one continuation to its     *)
(* next await without interleaving, and the functional setJobs updaters    *)
(* queued by one such segment are applied in order; an action is one       *)
(* segment and applies its writes in the order the code issues them.       *)
(* Texts are sequences of one-character strings.                           *)
(***************************************************************************)
EXTENDS Integers, Sequences, FiniteSets, TLC

VARIABLES
  kind,         \* which provider this is: "send" (BulkJobProvider) or "track" (TrackEventProvider)
  jobs,         \* the job store: account id -> Job record (useState)
  controllers,  \* account id -> id of its current run-control token, 0 = none (useRef)
  tokens,       \* account id -> the token objects created so far, by id
  loops,        \* account id -> the startJob invocations, by id of the token they installed
  toast,        \* the notice shown last (sonner toast), "" = none
  sent,         \* history: per account, the recipient numbers dispatched since its last accepted start
  lastCmd,      \* history: per account, the pause or stop in force and what the record showed when it was clicked
  edits,        \* history: how many input edits were made
  accountsFile, \* server: the account list stored in accounts.json, NoFile before the file exists
  requests      \* server: the mutating /api/accounts requests accepted so far, each with its handler's position

\* the state of the account server
server == <<accountsFile, requests>>

vars ==
  <<kind, jobs, controllers, tokens, loops, toast, sent, lastCmd, edits, server>>

\* accounts.json does not exist
NoFile == [exists |-> FALSE, accounts |-> <<>>]

\* the account server has received no request and has no file
ServerIdle == accountsFile = NoFile /\ requests = <<>>

----------------------------------------------------------------------------
(* Bounds *)

MaxEmails == 2     \* longest recipient list entered
MaxDelay == 2      \* largest delay entered
MaxStarts == 2     \* accepted starts per account
MaxElapsed == 1    \* ticks counted per run
MaxEdits == 3      \* input edits made

Accounts == {"a1"}

----------------------------------------------------------------------------
(* Texts and parsing *)

IsSpace(c) == c \in {" ", "\n", "\t", "\r"}

RECURSIVE TrimStart(_)
TrimStart(s) ==
  IF s # <<>> /\ IsSpace(Head(s)) THEN TrimStart(Tail(s)) ELSE s

RECURSIVE TrimEnd(_)
TrimEnd(s) ==
  IF s # <<>> /\ IsSpace(s[Len(s)]) THEN TrimEnd(SubSeq(s, 1, Len(s) - 1)) ELSE s

\* leading whitespace removed only
TrimLeading(s) == TrimStart(s)

Trim(s) == TrimEnd(TrimStart(s))

RECURSIVE SplitLines(_)
SplitLines(s) ==
  IF \E k \in 1..Len(s) : s[k] = "\n"
  THEN LET k == CHOOSE j \in 1..Len(s) :
                  s[j] = "\n" /\ \A m \in 1..(j - 1) : s[m] # "\n"
       IN <<SubSeq(s, 1, k - 1)>> \o SplitLines(SubSeq(s, k + 1, Len(s)))
  ELSE <<s>>

RECURSIVE MapTrim(_)
MapTrim(ls) ==
  IF ls = <<>> THEN <<>> ELSE <<Trim(Head(ls))>> \o MapTrim(Tail(ls))

\* the filter left out: blank lines stay in the list
FilterNothing(ls) == ls

RECURSIVE FilterNonEmpty(_)
FilterNonEmpty(ls) ==
  IF ls = <<>> THEN <<>>
  ELSE IF Len(Head(ls)) > 0 THEN <<Head(ls)>> \o FilterNonEmpty(Tail(ls))
       ELSE FilterNonEmpty(Tail(ls))

ParseEmails(text) == FilterNonEmpty(MapTrim(SplitLines(text)))

\* JSON.parse succeeds on the texts over { "{", "}", "1", "x", whitespace }
\* that are, between optional whitespace, an empty object or a number of 1s.
IsJsonText(text) ==
  LET t == Trim(text)
  IN \/ /\ Len(t) >= 2
        /\ t[1] = "{"
        /\ t[Len(t)] = "}"
        /\ \A k \in 2..(Len(t) - 1) : IsSpace(t[k])
     \/ /\ Len(t) >= 1
        /\ \A k \in 1..Len(t) : t[k] = "1"

\* the default left out: JSON.parse(job.eventData)
EventDataParsesNoDefault(text) == IsJsonText(text)

\* JSON.parse(job.eventData || '{}') does not throw
EventDataParses(text) ==
  IsJsonText(IF text = <<>> THEN <<"{", "}">> ELSE text)

----------------------------------------------------------------------------
(* The job store *)

Active == {"processing", "paused", "waiting"}

defaultJobState ==
  IF kind = "send"
  THEN [emailList |-> <<>>, subject |-> <<>>, content |-> <<>>,
        fromEmail |-> <<>>, fromName |-> <<>>, delay |-> 1,
        status |-> "idle", progress |-> [current |-> 0, total |-> 0],
        results |-> <<>>, stats |-> [success |-> 0, fail |-> 0],
        elapsedSeconds |-> 0, countdown |-> 0]
  ELSE [emailList |-> <<>>, eventName |-> <<>>, eventData |-> <<"{", "}">>,
        delay |-> 1,
        status |-> "idle", progress |-> [current |-> 0, total |-> 0],
        results |-> <<>>, stats |-> [success |-> 0, fail |-> 0],
        elapsedSeconds |-> 0, countdown |-> 0]

getJob(a) == IF a \in DOMAIN jobs THEN jobs[a] ELSE defaultJobState

\* the record replaced by the supplied fields instead of merged with them
ReplaceRecord(job, data) == data

\* { ...job, ...data }: the supplied top-level fields replace the old ones
Merge(job, data) ==
  [f \in DOMAIN job \cup DOMAIN data |->
     IF f \in DOMAIN data THEN data[f] ELSE job[f]]

\* the record written under every account id of the store
PutEverywhere(store, a, job) == [x \in DOMAIN store \cup {a} |-> job]

\* the store after setJobs(prev => ({ ...prev, [a]: job }))
Put(store, a, job) ==
  [x \in DOMAIN store \cup {a} |-> IF x = a THEN job ELSE store[x]]

\* the write built on the default job instead of the record in the store
updateJobDataFromDefault(store, a, data) ==
  Put(store, a, Merge(defaultJobState, data))

updateJobData(store, a, data) ==
  Put(store, a, Merge(IF a \in DOMAIN store THEN store[a] ELSE defaultJobState, data))

\* response.ok left unread: only a throw counts as a failure
ResultStatusIgnoresOk(outcome) == IF outcome = "throw" THEN "error" ELSE "success"

\* the functional updater of the try branch and of the catch branch
ResultStatus(outcome) == IF outcome = "ok" THEN "success" ELSE "error"

ResultResponse(outcome) == IF outcome = "throw" THEN "synthesized" ELSE "raw"

RecordOutcome(job, id, email, outcome) ==
  [job EXCEPT
     !.stats = IF ResultStatus(outcome) = "success"
               THEN [@ EXCEPT !.success = @ + 1]
               ELSE [@ EXCEPT !.fail = @ + 1],
     !.progress = [@ EXCEPT !.current = id],
     !.results = <<[id |-> id, email |-> email,
                    status |-> ResultStatus(outcome),
                    response |-> ResultResponse(outcome)]>> \o @]

----------------------------------------------------------------------------
(* One startJob invocation, from one suspension point to the next.         *)
(* c = [job, loop, toast, dispatched]: the account's record, the           *)
(* invocation's locals, the notice, and whether the segment dispatched a   *)
(* fetch.  ts = the account's tokens, cur = controllers.current[a],        *)
(* k = the provider whose copy of startJob runs.                           *)

LoopDone ==
  [pc |-> "done", i |-> 0, remaining |-> 0, ctrl |-> 0, emails |-> <<>>, delay |-> 0]

CompletedToast == IF kind = "send" THEN "Job Completed" ELSE "Tracking Completed"

\* after the for loop
Finish(ts, cur, c) ==
  IF ~ts[cur].isStopped
  THEN [c EXCEPT !.job = Merge(@, [status |-> "completed"]),
                 !.loop = LoopDone,
                 !.toast = CompletedToast]
  ELSE [c EXCEPT !.loop = LoopDone]

\* the stop re-check after the delay phase, then the fetch
PreFetch(k, ts, cur, c) ==
  IF ts[c.loop.ctrl].isStopped
  THEN IF k = "send"
       THEN Finish(ts, cur, [c EXCEPT !.job = Merge(@, [status |-> "stopped"])])
       ELSE Finish(ts, cur, c)
  ELSE [c EXCEPT !.loop.pc = "fetch", !.dispatched = TRUE]

\* after the countdown loop
AfterCountdown(k, ts, cur, c) ==
  PreFetch(k, ts, cur,
           [c EXCEPT !.job = Merge(@, [status |-> "processing", countdown |-> 0])])

\* the pause wait inside the countdown, then the one-second sleep
InnerPause(ts, c) ==
  IF ts[c.loop.ctrl].isPaused /\ ~ts[c.loop.ctrl].isStopped
  THEN [c EXCEPT !.loop.pc = "pausePoll2"]
  ELSE [c EXCEPT !.loop.pc = "sleep"]

\* while (remaining > 0)
CountdownTop(k, ts, cur, c) ==
  IF c.loop.remaining > 0
  THEN IF ts[c.loop.ctrl].isStopped
       THEN AfterCountdown(k, ts, cur, c)
       ELSE InnerPause(ts, c)
  ELSE AfterCountdown(k, ts, cur, c)

\* the delay phase without the test for the first recipient
DelayPhaseEveryRecipient(k, ts, cur, c) ==
  IF c.loop.delay > 0
  THEN CountdownTop(k, ts, cur,
         [c EXCEPT !.loop.remaining = c.loop.delay,
                   !.job = Merge(@, [status |-> "waiting",
                                     countdown |-> c.loop.delay])])
  ELSE PreFetch(k, ts, cur, c)

\* if (i > 0 && job.delay > 0)
DelayPhase(k, ts, cur, c) ==
  IF c.loop.i > 0 /\ c.loop.delay > 0
  THEN CountdownTop(k, ts, cur,
         [c EXCEPT !.loop.remaining = c.loop.delay,
                   !.job = Merge(@, [status |-> "waiting",
                                     countdown |-> c.loop.delay])])
  ELSE PreFetch(k, ts, cur, c)

\* the pause wait at the top of an iteration and the stop check after it
PauseCheck(k, ts, cur, c) ==
  IF ts[c.loop.ctrl].isPaused /\ ~ts[c.loop.ctrl].isStopped
  THEN [c EXCEPT !.loop.pc = "pausePoll1"]
  ELSE IF ts[c.loop.ctrl].isStopped
       THEN Finish(ts, cur, c)
       ELSE DelayPhase(k, ts, cur, c)

\* the head of the for loop: reads the account's current token
IterTop(k, ts, cur, c) ==
  IF c.loop.i >= Len(c.loop.emails)
  THEN Finish(ts, cur, c)
  ELSE IF ts[cur].isStopped
       THEN Finish(ts, cur, [c EXCEPT !.loop.ctrl = cur,
                                      !.job = Merge(@, [status |-> "stopped"])])
       ELSE PauseCheck(k, ts, cur, [c EXCEPT !.loop.ctrl = cur])

----------------------------------------------------------------------------
(* What the presentation layer enters *)

RECURSIVE EmailText(_)
EmailText(n) ==
  IF n <= 1 THEN <<"a">> ELSE EmailText(n - 1) \o <<"\n", " ", "b">>

EmailTexts == {<<>>, <<" ", "\n">>} \cup {EmailText(n) : n \in 1..MaxEmails}

InputEdits ==
  {[emailList |-> t] : t \in EmailTexts}
  \cup {[delay |-> d] : d \in 0..MaxDelay}
  \cup (IF kind = "send"
        THEN {[subject |-> t] : t \in {<<>>, <<"s">>}}
             \cup {[content |-> t] : t \in {<<>>, <<"c">>}}
        ELSE {[eventName |-> t] : t \in {<<>>, <<"e">>}}
             \cup {[eventData |-> t] : t \in {<<>>, <<"{", "}">>, <<"{">>, <<" ">>}})

Outcomes == {"ok", "notok", "throw"}

----------------------------------------------------------------------------
(* Control commands *)

isJobActive(a) == getJob(a).status \in Active

\* what lastCmd keeps of a click: the command and the record it was clicked on
NoCmd == [cmd |-> "none", status |-> "idle", countdown |-> 0, current |-> 0]

Clicked(cmd, job) ==
  [cmd |-> cmd, status |-> job.status, countdown |-> job.countdown,
   current |-> job.progress.current]

\* the notice of the check that rejects the start, "" when it is accepted
ValidationError(job) ==
  IF Len(ParseEmails(job.emailList)) = 0 THEN "No emails found"
  ELSE IF kind = "send"
       THEN IF job.subject = <<>> \/ job.content = <<>>
            THEN "Missing subject or content" ELSE ""
       ELSE IF job.eventName = <<>> THEN "Event Name is required"
            ELSE IF ~EventDataParses(job.eventData)
                 THEN "Invalid JSON in Event Data" ELSE ""

FreshToken == [isPaused |-> FALSE, isStopped |-> FALSE]

\* the reset without elapsedSeconds
StartResetKeepsElapsed(emails) ==
  [status |-> "processing", results |-> <<>>,
   stats |-> [success |-> 0, fail |-> 0],
   progress |-> [current |-> 0, total |-> Len(emails)],
   countdown |-> 0]

StartReset(emails) ==
  [status |-> "processing", results |-> <<>>,
   stats |-> [success |-> 0, fail |-> 0],
   progress |-> [current |-> 0, total |-> Len(emails)],
   elapsedSeconds |-> 0, countdown |-> 0]

StartedToast == IF kind = "send" THEN "Job Started" ELSE "Tracking Started"

\* the Start / Restart button, shown while the job is not active
StartJob(a) ==
  /\ ~isJobActive(a)
  /\ LET job == getJob(a)
         emails == ParseEmails(job.emailList)
     IN IF ValidationError(job) # ""
        THEN /\ toast' = ValidationError(job)
             /\ UNCHANGED <<server, kind, jobs, controllers, tokens, loops, sent, lastCmd, edits>>
        ELSE /\ Len(tokens[a]) < MaxStarts
             /\ LET ts == Append(tokens[a], FreshToken)
                    cur == Len(ts)
                    c == IterTop(kind, ts, cur,
                           [job |-> Merge(job, StartReset(emails)),
                            loop |-> [pc |-> "top", i |-> 0, remaining |-> 0,
                                      ctrl |-> 0, emails |-> emails,
                                      delay |-> job.delay],
                            toast |-> StartedToast,
                            dispatched |-> FALSE])
                IN /\ tokens' = [tokens EXCEPT ![a] = ts]
                   /\ controllers' = [controllers EXCEPT ![a] = cur]
                   /\ jobs' = Put(jobs, a, c.job)
                   /\ loops' = [loops EXCEPT ![a] = Append(@, c.loop)]
                   /\ toast' = c.toast
                   /\ sent' = [sent EXCEPT ![a] =
                                 IF c.dispatched THEN <<c.loop.i + 1>> ELSE <<>>]
                   /\ lastCmd' = [lastCmd EXCEPT ![a] = NoCmd]
                   /\ UNCHANGED <<server, kind, edits>>

\* pauseJob without the test for a token
pauseJobUnchecked(a) ==
  /\ tokens' = IF controllers[a] # 0
               THEN [tokens EXCEPT ![a][controllers[a]].isPaused = TRUE]
               ELSE tokens
  /\ jobs' = updateJobData(jobs, a, [status |-> "paused"])
  /\ toast' = IF kind = "send" THEN "Job Paused" ELSE "Tracking Paused"
  /\ UNCHANGED <<server, kind, controllers, loops, sent>>

\* pauseJob, resumeJob, stopJob: nothing happens without a token
pauseJob(a) ==
  /\ IF controllers[a] # 0
     THEN /\ tokens' = [tokens EXCEPT ![a][controllers[a]].isPaused = TRUE]
          /\ jobs' = updateJobData(jobs, a, [status |-> "paused"])
          /\ toast' = IF kind = "send" THEN "Job Paused" ELSE "Tracking Paused"
     ELSE UNCHANGED <<tokens, jobs, toast>>
  /\ UNCHANGED <<server, kind, controllers, loops, sent>>

resumeJob(a) ==
  /\ IF controllers[a] # 0
     THEN /\ tokens' = [tokens EXCEPT ![a][controllers[a]].isPaused = FALSE]
          /\ jobs' = updateJobData(jobs, a, [status |-> "processing"])
          /\ toast' = IF kind = "send" THEN "Job Resumed" ELSE "Tracking Resumed"
     ELSE UNCHANGED <<tokens, jobs, toast>>
  /\ UNCHANGED <<server, kind, controllers, loops, sent>>

stopJob(a) ==
  /\ IF controllers[a] # 0
     THEN /\ tokens' = [tokens EXCEPT ![a][controllers[a]] =
                          [isPaused |-> FALSE, isStopped |-> TRUE]]
          /\ jobs' = updateJobData(jobs, a, [status |-> "stopped"])
     ELSE UNCHANGED <<tokens, jobs>>
  /\ UNCHANGED <<server, kind, controllers, loops, toast, sent>>

\* the Pause button, shown while the job is active and not paused
PauseJob(a) ==
  /\ isJobActive(a)
  /\ getJob(a).status # "paused"
  /\ pauseJob(a)
  /\ lastCmd' = IF controllers[a] # 0
                THEN [lastCmd EXCEPT ![a] = Clicked("pause", getJob(a))]
                ELSE lastCmd
  /\ UNCHANGED edits

\* the Resume button, shown while the job is paused
ResumeJob(a) ==
  /\ getJob(a).status = "paused"
  /\ resumeJob(a)
  /\ lastCmd' = IF controllers[a] # 0
                THEN [lastCmd EXCEPT ![a] = NoCmd]
                ELSE lastCmd
  /\ UNCHANGED edits

\* the Stop button, shown while the job is active
StopJob(a) ==
  /\ isJobActive(a)
  /\ stopJob(a)
  /\ lastCmd' = IF controllers[a] # 0
                THEN [lastCmd EXCEPT ![a] = Clicked("stop", getJob(a))]
                ELSE lastCmd
  /\ UNCHANGED edits

\* the inputs left enabled while the job is active
EditInputWhileActive(a, data) ==
  /\ edits < MaxEdits
  /\ jobs' = updateJobData(jobs, a, data)
  /\ edits' = edits + 1
  /\ UNCHANGED <<server, kind, controllers, tokens, loops, toast, sent, lastCmd>>

EditInput(a, data) ==
  /\ ~isJobActive(a)
  /\ edits < MaxEdits
  /\ jobs' = updateJobData(jobs, a, data)
  /\ edits' = edits + 1
  /\ UNCHANGED <<server, kind, controllers, tokens, loops, toast, sent, lastCmd>>

----------------------------------------------------------------------------
(* The continuations of a startJob invocation *)

Config(a, g) ==
  [job |-> jobs[a], loop |-> loops[a][g], toast |-> toast, dispatched |-> FALSE]

Commit(a, g, c) ==
  /\ jobs' = Put(jobs, a, c.job)
  /\ loops' = [loops EXCEPT ![a][g] = c.loop]
  /\ toast' = c.toast
  /\ sent' = [sent EXCEPT ![a] =
                IF c.dispatched THEN Append(@, c.loop.i + 1) ELSE @]
  /\ UNCHANGED <<server, kind, controllers, tokens, lastCmd, edits>>

\* a 500 ms pause poll ends
PollWake(a, g) ==
  /\ loops[a][g].pc \in {"pausePoll1", "pausePoll2"}
  /\ Commit(a, g,
       IF loops[a][g].pc = "pausePoll1"
       THEN PauseCheck(kind, tokens[a], controllers[a], Config(a, g))
       ELSE InnerPause(tokens[a], Config(a, g)))

\* a one-second countdown sleep ends
SleepWake(a, g) ==
  /\ loops[a][g].pc = "sleep"
  /\ LET c == Config(a, g)
         r == c.loop.remaining - 1
     IN Commit(a, g,
          CountdownTop(kind, tokens[a], controllers[a],
            [c EXCEPT !.loop.remaining = r,
                      !.job = Merge(@, [countdown |-> r])]))

\* the adapter call settles: a 2xx response, another response, or a throw
FetchReturn(a, g, outcome) ==
  /\ loops[a][g].pc = "fetch"
  /\ LET c == Config(a, g)
         id == c.loop.i + 1
     IN Commit(a, g,
          IterTop(kind, tokens[a], controllers[a],
            [c EXCEPT !.job = RecordOutcome(@, id, c.loop.emails[id], outcome),
                      !.loop.i = id]))

----------------------------------------------------------------------------
(* The elapsed-time ticker *)

\* the ticker counting paused jobs too
TickingOrPaused(job) == job.status \in {"processing", "waiting", "paused"}

Ticking(job) == job.status = "processing" \/ job.status = "waiting"

Tick ==
  /\ \E a \in DOMAIN jobs : Ticking(jobs[a])
  /\ \A a \in DOMAIN jobs : Ticking(jobs[a]) => jobs[a].elapsedSeconds < MaxElapsed
  /\ jobs' = [a \in DOMAIN jobs |->
                IF Ticking(jobs[a])
                THEN [jobs[a] EXCEPT !.elapsedSeconds = @ + 1]
                ELSE jobs[a]]
  /\ UNCHANGED <<server, kind, controllers, tokens, loops, toast, sent, lastCmd, edits>>

----------------------------------------------------------------------------

Init ==
  /\ kind \in {"send", "track"}
  /\ jobs = [a \in {} |-> defaultJobState]
  /\ controllers = [a \in Accounts |-> 0]
  /\ tokens = [a \in Accounts |-> <<>>]
  /\ loops = [a \in Accounts |-> <<>>]
  /\ toast = ""
  /\ sent = [a \in Accounts |-> <<>>]
  /\ lastCmd = [a \in Accounts |-> NoCmd]
  /\ edits = 0
  /\ ServerIdle

Next ==
  \/ \E a \in Accounts : StartJob(a)
  \/ \E a \in Accounts : PauseJob(a)
  \/ \E a \in Accounts : ResumeJob(a)
  \/ \E a \in Accounts : StopJob(a)
  \/ \E a \in Accounts : \E data \in InputEdits : EditInput(a, data)
  \/ \E a \in Accounts : \E g \in 1..Len(loops[a]) : PollWake(a, g)
  \/ \E a \in Accounts : \E g \in 1..Len(loops[a]) : SleepWake(a, g)
  \/ \E a \in Accounts : \E g \in 1..Len(loops[a]) :
       \E outcome \in Outcomes : FetchReturn(a, g, outcome)
  \/ Tick

Spec == Init /\ [][Next]_vars

----------------------------------------------------------------------------
(* The parse of the recipient text: every text over a small alphabet is    *)
(* in the Recipients box and the payload is valid when Start is clicked.   *)

MaxTextLen == 5    \* longest text in the Recipients box

ParseAlphabet == {"a", "b", " ", "\n"}

RECURSIVE TextsOfLen(_)
TextsOfLen(n) ==
  IF n = 0 THEN {<<>>}
  ELSE {Append(t, ch) : t \in TextsOfLen(n - 1), ch \in ParseAlphabet}

ParseTexts == UNION {TextsOfLen(n) : n \in 0..MaxTextLen}

ValidPayload ==
  IF kind = "send"
  THEN [subject |-> <<"s">>, content |-> <<"c">>]
  ELSE [eventName |-> <<"e">>]

InitParse ==
  /\ kind \in {"send", "track"}
  /\ \E t \in ParseTexts :
       jobs = [a \in Accounts |->
                 Merge(defaultJobState,
                       Merge(ValidPayload, [emailList |-> t, delay |-> 0]))]
  /\ controllers = [a \in Accounts |-> 0]
  /\ tokens = [a \in Accounts |-> <<>>]
  /\ loops = [a \in Accounts |-> <<>>]
  /\ toast = ""
  /\ sent = [a \in Accounts |-> <<>>]
  /\ lastCmd = [a \in Accounts |-> NoCmd]
  /\ edits = 0
  /\ ServerIdle

NextParse ==
  \/ \E a \in Accounts : StartJob(a)
  \/ \E a \in Accounts : \E g \in 1..Len(loops[a]) :
       \E outcome \in Outcomes : FetchReturn(a, g, outcome)

SpecParse == InitParse /\ [][NextParse]_vars

----------------------------------------------------------------------------
(* Runs left alone: the inputs are entered, Start is clicked, and neither  *)
(* Pause nor Stop is clicked while the run lasts.                          *)

MaxRunEmails == 3  \* longest recipient list of a run left alone

InitRun ==
  /\ kind \in {"send", "track"}
  /\ \E n \in 1..MaxRunEmails : \E d \in 0..MaxDelay :
       jobs = [a \in Accounts |->
                 Merge(defaultJobState,
                       Merge(ValidPayload, [emailList |-> EmailText(n), delay |-> d]))]
  /\ controllers = [a \in Accounts |-> 0]
  /\ tokens = [a \in Accounts |-> <<>>]
  /\ loops = [a \in Accounts |-> <<>>]
  /\ toast = ""
  /\ sent = [a \in Accounts |-> <<>>]
  /\ lastCmd = [a \in Accounts |-> NoCmd]
  /\ edits = 0
  /\ ServerIdle

NextRun ==
  \/ \E a \in Accounts : StartJob(a)
  \/ \E a \in Accounts : \E g \in 1..Len(loops[a]) : SleepWake(a, g)
  \/ \E a \in Accounts : \E g \in 1..Len(loops[a]) :
       \E outcome \in Outcomes : FetchReturn(a, g, outcome)
  \/ Tick

SpecRun == InitRun /\ [][NextRun]_vars

----------------------------------------------------------------------------
(* Two accounts side by side: each has completed a run of one recipient    *)
(* that lasted a second, and the next list has been entered.               *)

AccountPair == {"a1", "a2"}

\* the record a completed run of the single recipient a leaves, with the
\* next list entered
AfterFirstRun ==
  Merge(defaultJobState,
        Merge(ValidPayload,
              [emailList |-> EmailText(2), delay |-> 1,
               status |-> "completed",
               progress |-> [current |-> 1, total |-> 1],
               results |-> <<[id |-> 1, email |-> <<"a">>,
                              status |-> ResultStatus("ok"),
                              response |-> ResultResponse("ok")]>>,
               stats |-> [success |-> 1, fail |-> 0],
               elapsedSeconds |-> 1]))

InitPair ==
  /\ kind \in {"send", "track"}
  /\ jobs = [a \in AccountPair |-> AfterFirstRun]
  /\ controllers = [a \in AccountPair |-> 1]
  /\ tokens = [a \in AccountPair |-> <<FreshToken>>]
  /\ loops = [a \in AccountPair |-> <<LoopDone>>]
  /\ toast = CompletedToast
  /\ sent = [a \in AccountPair |-> <<1>>]
  /\ lastCmd = [a \in AccountPair |-> NoCmd]
  /\ edits = 0
  /\ ServerIdle

NextPair ==
  \/ \E a \in AccountPair : StartJob(a)
  \/ \E a \in AccountPair : PauseJob(a)
  \/ \E a \in AccountPair : ResumeJob(a)
  \/ \E a \in AccountPair : StopJob(a)
  \/ \E a \in AccountPair : \E g \in 1..Len(loops[a]) : PollWake(a, g)
  \/ \E a \in AccountPair : \E g \in 1..Len(loops[a]) : SleepWake(a, g)
  \/ \E a \in AccountPair : \E g \in 1..Len(loops[a]) :
       \E outcome \in Outcomes : FetchReturn(a, g, outcome)
  \/ Tick

SpecPair == InitPair /\ [][NextPair]_vars

----------------------------------------------------------------------------
(* The store by itself: updateJobData called with any fields, for either   *)
(* account, with or without a record.                                      *)

MaxStoreWrites == 3  \* calls of updateJobData

StorePatches ==
  {[emailList |-> <<"a">>],
   [delay |-> 0],
   [status |-> "stopped"],
   [stats |-> [success |-> 1, fail |-> 0]],
   [progress |-> [current |-> 1, total |-> 2]],
   [status |-> "waiting", countdown |-> 2],
   [stats |-> [success |-> 0, fail |-> 1], progress |-> [current |-> 1, total |-> 1]]}

CallUpdateJobData(a, data) ==
  /\ edits < MaxStoreWrites
  /\ jobs' = updateJobData(jobs, a, data)
  /\ edits' = edits + 1
  /\ UNCHANGED <<server, kind, controllers, tokens, loops, toast, sent, lastCmd>>

InitStore ==
  /\ kind \in {"send", "track"}
  /\ jobs = [a \in {} |-> defaultJobState]
  /\ controllers = [a \in AccountPair |-> 0]
  /\ tokens = [a \in AccountPair |-> <<>>]
  /\ loops = [a \in AccountPair |-> <<>>]
  /\ toast = ""
  /\ sent = [a \in AccountPair |-> <<>>]
  /\ lastCmd = [a \in AccountPair |-> NoCmd]
  /\ edits = 0
  /\ ServerIdle

NextStore ==
  \E a \in AccountPair : \E data \in StorePatches : CallUpdateJobData(a, data)

SpecStore == InitStore /\ [][NextStore]_vars

----------------------------------------------------------------------------
(* The controller called directly: pause, resume and stop in any state,    *)
(* on a store that is empty or has the inputs of a run entered.            *)

MaxApiCalls == 3   \* direct calls of pauseJob, resumeJob and stopJob

InputsEntered ==
  Merge(defaultJobState,
        Merge(ValidPayload, [emailList |-> EmailText(2), delay |-> 1]))

CallPause(a) ==
  /\ edits < MaxApiCalls
  /\ pauseJob(a)
  /\ lastCmd' = [lastCmd EXCEPT ![a] = Clicked("pause", getJob(a))]
  /\ edits' = edits + 1

CallResume(a) ==
  /\ edits < MaxApiCalls
  /\ resumeJob(a)
  /\ lastCmd' = [lastCmd EXCEPT ![a] = Clicked("resume", getJob(a))]
  /\ edits' = edits + 1

CallStop(a) ==
  /\ edits < MaxApiCalls
  /\ stopJob(a)
  /\ lastCmd' = [lastCmd EXCEPT ![a] = Clicked("stop", getJob(a))]
  /\ edits' = edits + 1

InitApi ==
  /\ kind \in {"send", "track"}
  /\ \/ jobs = [a \in {} |-> defaultJobState]
     \/ jobs = [a \in Accounts |-> InputsEntered]
  /\ controllers = [a \in Accounts |-> 0]
  /\ tokens = [a \in Accounts |-> <<>>]
  /\ loops = [a \in Accounts |-> <<>>]
  /\ toast = ""
  /\ sent = [a \in Accounts |-> <<>>]
  /\ lastCmd = [a \in Accounts |-> NoCmd]
  /\ edits = 0
  /\ ServerIdle

NextApi ==
  \/ \E a \in Accounts : StartJob(a)
  \/ \E a \in Accounts : CallPause(a)
  \/ \E a \in Accounts : CallResume(a)
  \/ \E a \in Accounts : CallStop(a)
  \/ \E a \in Accounts : \E g \in 1..Len(loops[a]) : PollWake(a, g)
  \/ \E a \in Accounts : \E g \in 1..Len(loops[a]) : SleepWake(a, g)
  \/ \E a \in Accounts : \E g \in 1..Len(loops[a]) :
       \E outcome \in Outcomes : FetchReturn(a, g, outcome)

SpecApi == InitApi /\ [][NextApi]_vars

----------------------------------------------------------------------------
(* The account server: the handlers of POST, PUT and DELETE on             *)
(* /api/accounts. A handler runs to its next await without interleaving;   *)
(* between the awaits of one request the steps of others take place. A     *)
(* write of the file replaces its whole contents.                          *)

MaxRequests == 3   \* mutating requests accepted

AccountIds == {"x", "y"}

\* the bodies of POST: a new account
NewAccounts == {[id |-> i, name |-> "n1"] : i \in AccountIds}

\* the body of PUT: the fields to change
AccountPatch == [name |-> "n2"]

\* DELETE carries no body
NoBody == [none |-> TRUE]

AccountRequests ==
  {[method |-> "POST", id |-> "", body |-> b] : b \in NewAccounts}
    \cup {[method |-> "PUT", id |-> i, body |-> AccountPatch] : i \in AccountIds}
    \cup {[method |-> "DELETE", id |-> i, body |-> NoBody] : i \in AccountIds}

\* what the handler of req makes of the list it has read
Mutate(req, accounts) ==
  CASE req.method = "POST" -> Append(accounts, req.body)
    [] req.method = "PUT" ->
         [k \in 1..Len(accounts) |->
            IF accounts[k].id = req.id THEN Merge(accounts[k], req.body)
            ELSE accounts[k]]
    [] req.method = "DELETE" -> SelectSeq(accounts, LAMBDA acc : acc.id # req.id)

\* the request is accepted; its handler calls readJsonFile and waits for
\* fs.readFile
Receive(req) ==
  /\ Len(requests) < MaxRequests
  /\ requests' = Append(requests,
       [method |-> req.method, id |-> req.id, body |-> req.body,
        pc |-> "readFile", accounts |-> <<>>])
  /\ UNCHANGED <<accountsFile, kind, jobs, controllers, tokens, loops, toast,
                 sent, lastCmd, edits>>

\* fs.readFile settles: with the contents, which the handler changes and
\* hands to writeJsonFile, or with ENOENT, after which readJsonFile writes
\* an empty list first
ReadFileDone(r) ==
  /\ requests[r].pc = "readFile"
  /\ requests' =
       IF accountsFile.exists
       THEN [requests EXCEPT ![r].pc = "writeFile",
                             ![r].accounts = Mutate(requests[r], accountsFile.accounts)]
       ELSE [requests EXCEPT ![r].pc = "createFile"]
  /\ UNCHANGED <<accountsFile, kind, jobs, controllers, tokens, loops, toast,
                 sent, lastCmd, edits>>

\* the write of '[]' in readJsonFile settles; the handler goes on with an
\* empty list
CreateFileDone(r) ==
  /\ requests[r].pc = "createFile"
  /\ accountsFile' = [exists |-> TRUE, accounts |-> <<>>]
  /\ requests' = [requests EXCEPT ![r].pc = "writeFile",
                                  ![r].accounts = Mutate(requests[r], <<>>)]
  /\ UNCHANGED <<kind, jobs, controllers, tokens, loops, toast, sent, lastCmd, edits>>

\* the write in writeJsonFile settles and the response is sent
WriteFileDone(r) ==
  /\ requests[r].pc = "writeFile"
  /\ accountsFile' = [exists |-> TRUE, accounts |-> requests[r].accounts]
  /\ requests' = [requests EXCEPT ![r].pc = "done"]
  /\ UNCHANGED <<kind, jobs, controllers, tokens, loops, toast, sent, lastCmd, edits>>

NextAccounts ==
  \/ \E req \in AccountRequests : Receive(req)
  \/ \E r \in 1..Len(requests) : ReadFileDone(r)
  \/ \E r \in 1..Len(requests) : CreateFileDone(r)
  \/ \E r \in 1..Len(requests) : WriteFileDone(r)

SpecAccounts == Init /\ [][NextAccounts]_vars

----------------------------------------------------------------------------
(* Properties *)

Started(a) == controllers[a] # 0

CurrentToken(a) == tokens[a][controllers[a]]

InFlight(a) == {g \in 1..Len(loops[a]) : loops[a][g].pc = "fetch"}

\* loop g of account a takes this step
LoopStep(a, g) == loops'[a][g] # loops[a][g]

----------------------------------------------------------------------------
(* A hung call: the calls of account a1 never return, those of a2 do, the  *)
(* steps of a2's loop are taken when they are due (a poll that keeps      *)
(* finding chances to go on takes one), and a pause of a2 is followed by   *)
(* a resume or a stop.                                                     *)

Hung == "a1"

Free == "a2"

\* the Resume or Stop that ends a pause of account a
Unpause(a) ==
  /\ Started(a)
  /\ CurrentToken(a).isPaused
  /\ (ResumeJob(a) \/ StopJob(a))

NextHung ==
  \/ \E a \in AccountPair : StartJob(a)
  \/ \E a \in AccountPair : PauseJob(a)
  \/ \E a \in AccountPair : ResumeJob(a)
  \/ \E a \in AccountPair : StopJob(a)
  \/ \E a \in AccountPair : \E g \in 1..Len(loops[a]) : PollWake(a, g)
  \/ \E a \in AccountPair : \E g \in 1..Len(loops[a]) : SleepWake(a, g)
  \/ \E g \in 1..Len(loops[Free]) :
       \E outcome \in Outcomes : FetchReturn(Free, g, outcome)

\* a step of loop g of account a, once that loop exists
LoopMove(a, g) ==
  /\ g <= Len(loops[a])
  /\ \/ PollWake(a, g)
     \/ SleepWake(a, g)
     \/ \E outcome \in Outcomes : FetchReturn(a, g, outcome)

FairHung ==
  /\ \A g \in 1..MaxStarts : SF_vars(LoopMove(Free, g))
  /\ WF_vars(Unpause(Free))

SpecHung == InitPair /\ [][NextHung]_vars /\ FairHung

\* C1: for every account, in every state after its first accepted start,
\* stats.success + stats.fail = progress.current = length(results).
C1_CountsAgree ==
  \A a \in Accounts :
    Started(a) =>
      /\ jobs[a].stats.success + jobs[a].stats.fail = jobs[a].progress.current
      /\ jobs[a].progress.current = Len(jobs[a].results)

\* C2: once a start has replaced the account's token, a step of an earlier
\* invocation's loop changes nothing in the account's Job record and
\* dispatches no adapter call.
C2_SupersededLoopSilent ==
  [][\A a \in Accounts : \A g \in 1..Len(loops[a]) :
       (g < controllers[a] /\ LoopStep(a, g)) =>
         /\ jobs'[a] = jobs[a]
         /\ loops'[a][g].pc # "fetch"]_vars

\* C3: between one accepted start and the next, the recipients dispatched on
\* the account are numbers 1, 2, ..., k in that order, each once, and all of
\* them when the status is completed.
C3_EachRecipientOnceInOrder ==
  \A a \in Accounts :
    /\ \A j \in 1..Len(sent[a]) : sent[a][j] = j
    /\ (Started(a) /\ jobs[a].status = "completed") =>
         Len(sent[a]) = jobs[a].progress.total

\* C4: a stop clicked while the status is waiting makes the status stopped in
\* that step; from then until the next start (and while no later click
\* replaces it) no adapter call is dispatched on the account and
\* progress.current keeps the value it had at the click.
C4_StopWhileWaiting ==
  [][\A a \in Accounts :
       /\ (lastCmd'[a].cmd = "stop" /\ lastCmd'[a] # lastCmd[a]) =>
            jobs'[a].status = "stopped"
       /\ (lastCmd'[a].cmd = "stop" /\ lastCmd'[a].status = "waiting") =>
            /\ jobs'[a].progress.current = lastCmd'[a].current
            /\ (lastCmd[a] = lastCmd'[a] => sent'[a] = sent[a])]_vars

\* C5: while the account's current token is marked stopped (from the stop
\* until the next start) it is not marked paused and the status is stopped.
C5_StoppedStays ==
  \A a \in Accounts :
    (Started(a) /\ CurrentToken(a).isStopped) =>
      /\ ~CurrentToken(a).isPaused
      /\ jobs[a].status = "stopped"

\* C6: per account at most one adapter call is in flight, and the call in
\* flight is the one for the recipient after the last recorded outcome.
C6_OneCallInFlight ==
  \A a \in Accounts :
    /\ Cardinality(InFlight(a)) <= 1
    /\ \A g \in InFlight(a) : loops[a][g].i = jobs[a].progress.current

\* C7: from the step that accepts a pause until the next resume or stop (the
\* current token is marked paused and not stopped across the step), no adapter
\* call is dispatched on the account and the status stays paused.
PauseInForce(a) ==
  Started(a) /\ CurrentToken(a).isPaused /\ ~CurrentToken(a).isStopped

C7_PausedRunDispatchesNothing ==
  [][\A a \in Accounts :
       (PauseInForce(a) /\ PauseInForce(a)') =>
         /\ sent'[a] = sent[a]
         /\ jobs'[a].status = "paused"]_vars

\* C8: after a pause clicked during a delay countdown, until the resume,
\* countdown_seconds keeps the value it had at the click.
C8_CountdownKeptWhilePaused ==
  \A a \in Accounts :
    (lastCmd[a].cmd = "pause" /\ lastCmd[a].status = "waiting") =>
      jobs[a].countdown = lastCmd[a].countdown

\* C9: a start on a job whose recipient text is empty or holds only blank or
\* whitespace lines is rejected: the job store, the account's token, the
\* loops and the dispatches are unchanged and the notice is "No emails found".
OnlyBlank(text) == \A k \in 1..Len(text) : IsSpace(text[k])

C9_EmptyListRejected ==
  [][\A a \in Accounts :
       (StartJob(a) /\ OnlyBlank(getJob(a).emailList)) =>
         /\ jobs' = jobs
         /\ controllers' = controllers
         /\ tokens' = tokens
         /\ loops' = loops
         /\ sent' = sent
         /\ toast' = "No emails found"]_vars

\* a finished run's record and token, then a start on a whitespace-only text
C9_Witness ==
  \E a \in Accounts :
    /\ toast = "No emails found"
    /\ Started(a)
    /\ jobs[a].status = "completed"
    /\ Len(jobs[a].results) > 0
    /\ jobs[a].emailList = <<" ", "\n">>

\* C10: a start with recipients but an invalid payload (send: empty subject
\* or content; track: empty event name, or event data that is non-empty and
\* not JSON) changes neither the job store nor the token and dispatches
\* nothing; a track start with a name and empty event data is accepted.
InvalidPayload(job) ==
  IF kind = "send"
  THEN job.subject = <<>> \/ job.content = <<>>
  ELSE \/ job.eventName = <<>>
       \/ job.eventData # <<>> /\ ~IsJsonText(job.eventData)

C10_InvalidPayloadRejected ==
  [][\A a \in Accounts :
       (StartJob(a) /\ ~OnlyBlank(getJob(a).emailList)) =>
         IF InvalidPayload(getJob(a))
         THEN /\ jobs' = jobs
              /\ controllers' = controllers
              /\ tokens' = tokens
              /\ loops' = loops
              /\ sent' = sent
              /\ toast' \in {"Missing subject or content",
                             "Event Name is required",
                             "Invalid JSON in Event Data"}
         ELSE /\ controllers'[a] = controllers[a] + 1
              /\ tokens'[a][controllers'[a]] = FreshToken
              /\ Len(sent'[a]) = 1]_vars

\* a finished run's record and token, then a start on event data "{"
C10_Witness ==
  \E a \in Accounts :
    /\ toast = "Invalid JSON in Event Data"
    /\ Started(a)
    /\ jobs[a].status = "completed"
    /\ jobs[a].eventData = <<"{">>

\* C11: a step that installs a token (an accepted start) starts from idle,
\* completed or stopped and leaves results empty, stats 0/0, progress 0 of
\* the parsed recipient count, elapsed and countdown 0, status processing, a
\* fresh token as the account's current one and the first call dispatched
\* only then; every other field of the record keeps its value.
ResetFields ==
  {"status", "results", "stats", "progress", "elapsedSeconds", "countdown"}

C11_StartResets ==
  [][\A a \in Accounts :
       controllers'[a] # controllers[a] =>
         /\ getJob(a).status \in {"idle", "completed", "stopped"}
         /\ jobs'[a].results = <<>>
         /\ jobs'[a].stats = [success |-> 0, fail |-> 0]
         /\ jobs'[a].progress =
              [current |-> 0, total |-> Len(ParseEmails(getJob(a).emailList))]
         /\ jobs'[a].elapsedSeconds = 0
         /\ jobs'[a].countdown = 0
         /\ jobs'[a].status = "processing"
         /\ controllers'[a] = Len(tokens'[a])
         /\ Len(tokens'[a]) = Len(tokens[a]) + 1
         /\ tokens'[a][controllers'[a]] = FreshToken
         /\ sent'[a] = <<1>>
         /\ DOMAIN jobs'[a] = DOMAIN getJob(a)
         /\ \A f \in DOMAIN getJob(a) \ ResetFields : jobs'[a][f] = getJob(a)[f]]_vars

\* a restart just accepted on a job whose first run was stopped
C11_Witness ==
  \E a \in Accounts :
    /\ controllers[a] = 2
    /\ tokens[a][1].isStopped
    /\ loops[a][2].pc = "fetch" /\ loops[a][2].i = 0
    /\ jobs[a].results = <<>>
    /\ jobs[a].elapsedSeconds = 0
    /\ jobs[a].status = "processing"
    /\ toast = StartedToast

\* the lines of a text, read off its positions: a line starts at position 1
\* and after every newline and runs up to the next newline or the end
LineStarts(t) == {s \in 1..(Len(t) + 1) : s = 1 \/ t[s - 1] = "\n"}

LineEnd(t, s) ==
  IF \E k \in s..Len(t) : t[k] = "\n"
  THEN (CHOOSE k \in s..Len(t) :
          t[k] = "\n" /\ \A m \in s..(k - 1) : t[m] # "\n") - 1
  ELSE Len(t)

Visible(t, s) == {k \in s..LineEnd(t, s) : ~IsSpace(t[k])}

NonBlankStarts(t) == {s \in LineStarts(t) : Visible(t, s) # {}}

Least(S) == CHOOSE x \in S : \A y \in S : x <= y

Greatest(S) == CHOOSE x \in S : \A y \in S : y <= x

LinesOf(t) ==
  [j \in 1..Cardinality(NonBlankStarts(t)) |->
     LET s == CHOOSE x \in NonBlankStarts(t) :
                Cardinality({y \in NonBlankStarts(t) : y < x}) = j - 1
     IN SubSeq(t, Least(Visible(t, s)), Greatest(Visible(t, s)))]

\* C12: the recipient list a run uses is the newline-separated lines of the
\* recipient text, each without its surrounding whitespace, the blank ones
\* left out, in the order of the text and with duplicates kept;
\* progress.total is its length and every result carries the line its id
\* numbers.
C12_ParsedRecipients ==
  \A a \in Accounts :
    Started(a) =>
      LET lines == LinesOf(jobs[a].emailList)
      IN /\ jobs[a].progress.total = Len(lines)
         /\ \A g \in 1..Len(loops[a]) :
              loops[a][g].pc # "done" => loops[a][g].emails = lines
         /\ \A j \in 1..Len(jobs[a].results) :
              /\ jobs[a].results[j].id \in 1..Len(lines)
              /\ jobs[a].results[j].email = lines[jobs[a].results[j].id]

\* a text with a blank line, a padded line and a repeated address, run to its end
C12_Witness ==
  \E a \in Accounts :
    /\ Started(a)
    /\ jobs[a].emailList = <<"a", "\n", "\n", " ", "a">>
    /\ jobs[a].progress.total = 2
    /\ Len(jobs[a].results) = 2
    /\ jobs[a].results[1].email = <<"a">>
    /\ jobs[a].results[2].email = <<"a">>

\* the step records the outcome of one more call of account a
Records(a) == a \in DOMAIN jobs /\ Len(jobs'[a].results) = Len(jobs[a].results) + 1

\* C13: in a run that is never paused or stopped, with a positive delay the
\* status enters waiting exactly in the steps that record recipient k for
\* 1 <= k < N (so N - 1 times and never before the first call), with the
\* countdown set to the delay; the countdown then goes down by 1 per sleep
\* and the next call is dispatched in the step that brings it to 0 and
\* never earlier.  With delay 0 the status is never waiting and every call
\* but the first is dispatched in the step recording the one before it.
C13_WaitsBetweenRecipients ==
  [][\A a \in DOMAIN jobs :
       LET job == jobs[a]
           new == jobs'[a]
           N == new.progress.total
           k == new.progress.current
       IN /\ Records(a) =>
               /\ job.status = "processing"
               /\ k = job.progress.current + 1
               /\ k = Len(new.results)
               /\ (new.status = "waiting") = (k < N /\ job.delay > 0)
          /\ (new.status = "waiting" /\ job.status # "waiting") =>
               /\ Records(a)
               /\ new.countdown = job.delay
               /\ sent'[a] = sent[a]
          /\ new.countdown # job.countdown /\ job.status = "waiting" =>
               /\ new.countdown = job.countdown - 1
               /\ new.progress = job.progress
               /\ IF new.countdown = 0
                  THEN /\ new.status = "processing"
                       /\ sent'[a] = Append(sent[a], k + 1)
                  ELSE /\ new.status = "waiting"
                       /\ sent'[a] = sent[a]
          /\ (sent'[a] # sent[a] /\ Len(sent'[a]) > 1) =>
               IF job.delay > 0
               THEN job.status = "waiting" /\ job.countdown = 1 /\ new.countdown = 0
               ELSE Records(a)
          /\ job.delay = 0 => new.status # "waiting"]_vars

\* the second of three recipients recorded, one second of a delay of 2 left
C13_Witness ==
  \E a \in Accounts :
    /\ Started(a)
    /\ jobs[a].status = "waiting"
    /\ jobs[a].delay = 2
    /\ jobs[a].countdown = 1
    /\ jobs[a].progress = [current |-> 2, total |-> 3]

Failures == {"notok", "throw"}

\* where loop g of account a stands after its call for recipient k settles
\* with a 2xx response
AfterSuccess(a, g) ==
  LET c == Config(a, g)
      k == c.loop.i + 1
  IN IterTop(kind, tokens[a], controllers[a],
       [c EXCEPT !.job = RecordOutcome(@, k, c.loop.emails[k], "ok"),
                 !.loop.i = k])

\* C14: a call for recipient k that fails (a throw, an unparsable body, a
\* response that is not 2xx) adds 1 to stats.fail and nothing to
\* stats.success, puts a result with id k, recipient k and status error at
\* the head of results, sets progress.current to k, and leaves the loop, the
\* status, the countdown, the notice and the next dispatch exactly where a
\* successful call would: the loop ends only when k was the last recipient
\* or the current token is stopped.
C14_FailureGoesOn ==
  [][\A a \in Accounts : \A g \in 1..Len(loops[a]) : \A outcome \in Failures :
       FetchReturn(a, g, outcome) =>
         LET job == jobs[a]
             new == jobs'[a]
             k == loops[a][g].i + 1
             ok == AfterSuccess(a, g)
         IN /\ new.stats.fail = job.stats.fail + 1
            /\ new.stats.success = job.stats.success
            /\ Len(new.results) = Len(job.results) + 1
            /\ Tail(new.results) = job.results
            /\ Head(new.results).id = k
            /\ Head(new.results).email = loops[a][g].emails[k]
            /\ Head(new.results).status = "error"
            /\ new.progress.current = k
            /\ loops'[a][g] = ok.loop
            /\ new.status = ok.job.status
            /\ new.countdown = ok.job.countdown
            /\ toast' = ok.toast
            /\ sent'[a] = IF ok.dispatched THEN Append(sent[a], k + 1) ELSE sent[a]
            /\ loops'[a][g].pc = "done" =>
                 k = Len(loops[a][g].emails) \/ CurrentToken(a).isStopped
            /\ loops'[a][g].pc # "done" => loops'[a][g].i = k]_vars

\* the first call failed without a response, the second is in flight
C14_Witness ==
  \E a \in Accounts :
    /\ Started(a)
    /\ Len(jobs[a].results) = 1
    /\ jobs[a].results[1].status = "error"
    /\ jobs[a].results[1].response = "synthesized"
    /\ jobs[a].stats = [success |-> 0, fail |-> 1]
    /\ jobs[a].status = "processing"
    /\ sent[a] = <<1, 2>>
    /\ loops[a][controllers[a]].pc = "fetch"

\* C15: results is empty at a start and every later change of it puts one
\* entry at its head, numbered one more than the entries already there and
\* carrying that recipient of the list the run was started with; so in
\* every state results holds, most recent first, the ids k, k - 1, ..., 1
\* without gap or repeat.
C15_ResultsNewestFirst ==
  [][\A a \in Accounts :
       Started(a)' =>
         /\ \A j \in 1..Len(jobs'[a].results) :
              jobs'[a].results[j].id = Len(jobs'[a].results) + 1 - j
         /\ (a \in DOMAIN jobs /\ jobs'[a].results # jobs[a].results) =>
              IF controllers'[a] # controllers[a]
              THEN jobs'[a].results = <<>>
              ELSE LET run == loops[a][controllers[a]]
                       r == Head(jobs'[a].results)
                   IN /\ Tail(jobs'[a].results) = jobs[a].results
                      /\ r.id = Len(jobs[a].results) + 1
                      /\ r.id <= Len(run.emails)
                      /\ r.email = run.emails[r.id]]_vars

\* C16: in every step that is not an accepted start, progress.total keeps
\* its value and progress.current either keeps its value or grows by
\* exactly 1; and progress.current <= progress.total in every state.
C16_ProgressMonotone ==
  [][\A a \in DOMAIN jobs :
       /\ jobs'[a].progress.current <= jobs'[a].progress.total
       /\ controllers'[a] = controllers[a] =>
            /\ jobs'[a].progress.total = jobs[a].progress.total
            /\ \/ jobs'[a].progress.current = jobs[a].progress.current
               \/ jobs'[a].progress.current = jobs[a].progress.current + 1]_vars

\* C17: in every reachable state, a job whose countdown is above 0 has
\* status waiting.
C17_CountdownOnlyWhileWaiting ==
  \A a \in DOMAIN jobs : jobs[a].countdown > 0 => jobs[a].status = "waiting"

\* C18: a step that changes the elapsed seconds of some job is either an
\* accepted start of that job, which sets them to 0, or a tick: it adds
\* exactly 1 to the elapsed seconds of every job whose status is processing
\* or waiting, and leaves every other field of those jobs, every job in
\* another status, the tokens, the loops and the notice unchanged.
C18_OnlyTickCountsElapsed ==
  [][\A a \in DOMAIN jobs :
       jobs'[a].elapsedSeconds # jobs[a].elapsedSeconds =>
         \/ /\ controllers'[a] # controllers[a]
            /\ jobs'[a].elapsedSeconds = 0
         \/ /\ jobs[a].status \in {"processing", "waiting"}
            /\ DOMAIN jobs' = DOMAIN jobs
            /\ \A b \in DOMAIN jobs :
                 jobs'[b] = IF jobs[b].status \in {"processing", "waiting"}
                            THEN [jobs[b] EXCEPT !.elapsedSeconds = @ + 1]
                            ELSE jobs[b]
            /\ UNCHANGED <<controllers, tokens, loops, toast, sent>>]_vars

\* a tick has counted a second of one account's run while the run of the
\* other, restarted as well, was paused
C18_Witness ==
  /\ DOMAIN jobs = AccountPair
  /\ controllers["a1"] = 2 /\ controllers["a2"] = 2
  /\ jobs["a1"].elapsedSeconds = 1
  /\ jobs["a1"].status = "waiting"
  /\ jobs["a2"].elapsedSeconds = 0
  /\ jobs["a2"].status = "paused"

\* C19: every step that changes a job's status to paused or to waiting
\* starts from status processing.
C19_PausedWaitingFromProcessing ==
  [][\A a \in DOMAIN jobs :
       (jobs'[a].status \in {"paused", "waiting"} /\ jobs'[a].status # jobs[a].status)
         => jobs[a].status = "processing"]_vars

\* every startJob invocation of account a has returned
LoopsExited(a) == \A g \in 1..Len(loops[a]) : loops[a][g].pc = "done"

\* C20: a run whose loop has exited, so that no step of the run is left to
\* happen, shows status completed or stopped, and completed when stop was
\* never requested on it; this is where every started run must arrive when
\* calls return and pauses are followed by a resume or a stop.
C20_RunEndsCompletedOrStopped ==
  \A a \in Accounts :
    (Started(a) /\ LoopsExited(a)) =>
      /\ jobs[a].status \in {"completed", "stopped"}
      /\ ~CurrentToken(a).isStopped => jobs[a].status = "completed"

\* C21: when the call of run g for recipient k settles after stop was
\* requested on that run, its outcome is recorded (one more result, with
\* id k, and progress.current = k), the status stays stopped, the run
\* dispatches no further call and its loop exits.
C21_StopLetsCallFinish ==
  [][\A a \in Accounts : \A g \in 1..Len(loops[a]) :
       (loops[a][g].pc = "fetch" /\ tokens[a][g].isStopped /\ LoopStep(a, g)) =>
         LET k == loops[a][g].i + 1
         IN /\ Len(jobs'[a].results) = Len(jobs[a].results) + 1
            /\ Head(jobs'[a].results).id = k
            /\ jobs'[a].progress.current = k
            /\ jobs'[a].status = "stopped"
            /\ sent'[a] = sent[a]
            /\ loops'[a][g].pc = "done"]_vars

\* the fields the presentation layer lets the user enter
InputFields ==
  {"emailList", "delay", "subject", "content", "fromEmail", "fromName",
   "eventName", "eventData"}

Inputs(job) == [f \in DOMAIN job \cap InputFields |-> job[f]]

\* C22: a step that changes the recipient text, a payload field or the
\* delay of a job starts and ends with the job in idle, completed or
\* stopped; and while the job is active its inputs are those its run was
\* started with: progress.total is the length of the list parsed from the
\* recipient text and, as long as the loop of the current run has not
\* exited, the list and the delay that loop works with are those of the
\* record.
C22_InputsFrozenWhileActive ==
  [][\A a \in Accounts :
       /\ Inputs(getJob(a))' # Inputs(getJob(a)) =>
            ~isJobActive(a) /\ ~isJobActive(a)'
       /\ (isJobActive(a)' /\ Started(a)') =>
            /\ jobs'[a].progress.total = Len(ParseEmails(jobs'[a].emailList))
            /\ loops'[a][controllers'[a]].pc # "done" =>
                 /\ loops'[a][controllers'[a]].emails = ParseEmails(jobs'[a].emailList)
                 /\ loops'[a][controllers'[a]].delay = jobs'[a].delay]_vars

\* C23: getJob of an account without a record is the default idle job and
\* the store holds no record for it; a call updateJobData(a, data) makes
\* the record of a hold the supplied value in every supplied top-level
\* field (a supplied stats or progress whole), the value of the old
\* record, or of the default job when there was none, in every other
\* field, and leaves the record of every other account, and its absence,
\* as it was.
C23_ShallowMerge ==
  [][/\ \A a \in AccountPair : a \notin DOMAIN jobs => getJob(a) = defaultJobState
     /\ \A a \in AccountPair : \A data \in StorePatches :
          CallUpdateJobData(a, data) =>
            LET base == IF a \in DOMAIN jobs THEN jobs[a] ELSE defaultJobState
            IN /\ DOMAIN jobs' = DOMAIN jobs \cup {a}
               /\ DOMAIN jobs'[a] = DOMAIN defaultJobState
               /\ \A f \in DOMAIN data : jobs'[a][f] = data[f]
               /\ \A f \in DOMAIN jobs'[a] \ DOMAIN data : jobs'[a][f] = base[f]
               /\ \A b \in DOMAIN jobs \ {a} : jobs'[b] = jobs[b]]_vars

\* one account's record written twice, the other account still without one
C23_Witness ==
  /\ DOMAIN jobs = {"a2"}
  /\ edits = 2
  /\ jobs["a2"].stats = [success |-> 1, fail |-> 0]
  /\ jobs["a2"].emailList = <<"a">>
  /\ jobs["a2"].status = "idle"
  /\ getJob("a1") = defaultJobState

\* C24: a call of pauseJob, resumeJob or stopJob for an account on which no
\* start has passed validation leaves the store, an absent record
\* included, the tokens, the current-token table, the loops and the
\* notice as they were.
C24_NoTokenNoEffect ==
  [][\A a \in Accounts :
       (~Started(a) /\ (CallPause(a) \/ CallResume(a) \/ CallStop(a))) =>
         UNCHANGED <<jobs, tokens, controllers, loops, toast, sent>>]_vars

\* pause was called last, after a rejected start, on an account that has
\* neither a record nor a token
C24_Witness ==
  \E a \in Accounts :
    /\ ~Started(a)
    /\ tokens[a] = <<>>
    /\ a \notin DOMAIN jobs
    /\ lastCmd[a].cmd = "pause"
    /\ toast = "No emails found"
    /\ edits = MaxApiCalls

\* some controller action of account a takes this step
ControllerStep(a) ==
  \/ StartJob(a)
  \/ PauseJob(a)
  \/ ResumeJob(a)
  \/ StopJob(a)
  \/ \E g \in 1..Len(loops[a]) : PollWake(a, g)
  \/ \E g \in 1..Len(loops[a]) : SleepWake(a, g)
  \/ \E g \in 1..Len(loops[a]) : \E outcome \in Outcomes : FetchReturn(a, g, outcome)

\* C25: a start, pause, resume, stop, loop step or outcome write of one
\* account leaves the record, the tokens, the current token and the loops
\* of every other account unchanged, however the runs of the two accounts
\* are interleaved.
C25_OtherAccountsUntouched ==
  [][\A a \in AccountPair :
       ControllerStep(a) =>
         \A b \in AccountPair \ {a} :
           /\ (b \in DOMAIN jobs') = (b \in DOMAIN jobs)
           /\ b \in DOMAIN jobs => jobs'[b] = jobs[b]
           /\ tokens'[b] = tokens[b]
           /\ controllers'[b] = controllers[b]
           /\ loops'[b] = loops[b]
           /\ sent'[b] = sent[b]]_vars

\* both accounts restarted: one run completed while the other sat paused
\* after its first recipient
C25_Witness ==
  /\ controllers["a1"] = 2 /\ controllers["a2"] = 2
  /\ jobs["a1"].status = "completed"
  /\ jobs["a1"].progress = [current |-> 2, total |-> 2]
  /\ jobs["a2"].status = "paused"
  /\ jobs["a2"].progress = [current |-> 1, total |-> 2]
  /\ tokens["a2"][2].isPaused
  /\ ~tokens["a1"][2].isPaused

\* the loop of the current run of account a has not exited
LiveRun(a) == Started(a) /\ loops[a][controllers[a]].pc # "done"

\* the run of account a is not left paused: time and again its token is
\* not marked paused
NotLeftPaused(a) == []<>(Started(a) => ~CurrentToken(a).isPaused)

\* C26: while a call of account a1 is in flight and never returns, a run of
\* account a2 whose loop has not exited and which is not left paused comes
\* to its end (its loop exits), and once the loop of a2's run has exited
\* the status of a2 is completed or stopped.
C26_HungCallStallsOnlyItsAccount ==
  /\ NotLeftPaused(Free) =>
       ((InFlight(Hung) # {} /\ LiveRun(Free)) ~> ~LiveRun(Free))
  /\ []((InFlight(Hung) # {} /\ Started(Free) /\ ~LiveRun(Free)) =>
          jobs[Free].status \in {"completed", "stopped"})
  /\ [](InFlight(Hung) # {} => [](InFlight(Hung) # {}))

\* what the claim compares of the outcome of a segment: the record's
\* status, progress, stats, countdown and result ids and statuses, and with
\* them where the loop stands and whether a call was dispatched
Observed(c) ==
  [status |-> c.job.status,
   progress |-> c.job.progress,
   stats |-> c.job.stats,
   countdown |-> c.job.countdown,
   results |-> [j \in 1..Len(c.job.results) |->
                  [id |-> c.job.results[j].id, status |-> c.job.results[j].status]],
   loop |-> c.loop,
   dispatched |-> c.dispatched]

\* the segment provider k runs when the sleep, the pause poll or the call
\* of loop g of account a ends
SleepSegment(k, a, g) ==
  LET c == Config(a, g)
      r == c.loop.remaining - 1
  IN CountdownTop(k, tokens[a], controllers[a],
       [c EXCEPT !.loop.remaining = r, !.job = Merge(@, [countdown |-> r])])

PollSegment(k, a, g) == PauseCheck(k, tokens[a], controllers[a], Config(a, g))

FetchSegment(k, a, g, outcome) ==
  LET c == Config(a, g)
      id == c.loop.i + 1
  IN IterTop(k, tokens[a], controllers[a],
       [c EXCEPT !.job = RecordOutcome(@, id, c.loop.emails[id], outcome),
                 !.loop.i = id])

\* C27: in every reachable state of either provider, whichever sleep,
\* pause poll or call ends next and with whatever outcome, the send copy
\* and the track copy of the loop leave the same status, progress, stats,
\* countdown and result ids and statuses, the same loop position and the
\* same dispatch.
C27_SendAndTrackAgree ==
  \A a \in Accounts : \A g \in 1..Len(loops[a]) :
    /\ loops[a][g].pc = "sleep" =>
         Observed(SleepSegment("send", a, g)) = Observed(SleepSegment("track", a, g))
    /\ loops[a][g].pc = "pausePoll1" =>
         Observed(PollSegment("send", a, g)) = Observed(PollSegment("track", a, g))
    /\ loops[a][g].pc = "fetch" =>
         \A outcome \in Outcomes :
           Observed(FetchSegment("send", a, g, outcome))
             = Observed(FetchSegment("track", a, g, outcome))

\* the record with one field left out
Without(job, fields) == [f \in DOMAIN job \ fields |-> job[f]]

\* C28: every write to a job's record starts from the record as it is when
\* the write is applied, whatever was written in between: a pause, resume
\* or stop changes the status alone; a tick adds 1 to the elapsed seconds
\* of a running job and changes nothing else; a step of the countdown or of
\* a pause poll changes status and countdown alone; a recorded outcome adds
\* 1 to exactly one counter of stats and one entry in front of results and
\* leaves the elapsed seconds and the inputs; an input edit changes the
\* edited field alone.
C28_NoLostWrite ==
  [][\A a \in DOMAIN jobs :
       LET job == jobs[a]
           new == jobs'[a]
       IN /\ PauseJob(a) => new = [job EXCEPT !.status = "paused"]
          /\ ResumeJob(a) => new = [job EXCEPT !.status = "processing"]
          /\ StopJob(a) => new = [job EXCEPT !.status = "stopped"]
          /\ Tick =>
               /\ Without(new, {"elapsedSeconds"}) = Without(job, {"elapsedSeconds"})
               /\ new.elapsedSeconds =
                    job.elapsedSeconds + (IF job.status \in {"processing", "waiting"} THEN 1 ELSE 0)
          /\ (\E g \in 1..Len(loops[a]) : SleepWake(a, g) \/ PollWake(a, g)) =>
               Without(new, {"status", "countdown"}) = Without(job, {"status", "countdown"})
          /\ (\E g \in 1..Len(loops[a]) : \E outcome \in Outcomes : FetchReturn(a, g, outcome)) =>
               /\ Without(new, {"status", "countdown", "stats", "progress", "results"})
                    = Without(job, {"status", "countdown", "stats", "progress", "results"})
               /\ new.stats.success + new.stats.fail = job.stats.success + job.stats.fail + 1
               /\ new.stats.success >= job.stats.success
               /\ new.stats.fail >= job.stats.fail
               /\ Tail(new.results) = job.results
               /\ new.progress.total = job.progress.total
          /\ \A data \in InputEdits :
               EditInput(a, data) => Without(new, DOMAIN data) = Without(job, DOMAIN data)]_vars

\* a tick, an outcome, a countdown second and a pause have all been written
C28_Witness ==
  \E a \in DOMAIN jobs :
    /\ jobs[a].elapsedSeconds = 1
    /\ jobs[a].stats = [success |-> 1, fail |-> 0]
    /\ Len(jobs[a].results) = 1
    /\ jobs[a].delay = 2
    /\ jobs[a].countdown = 1
    /\ jobs[a].status = "paused"


\* account a is in a run started after a run that was stopped, and the
\* token of the run is as the start made it with no command pending: no
\* command was given since the start, or none but pauses each followed by
\* its resume
FreshRunAfterStop(a) ==
  /\ controllers[a] > 1
  /\ tokens[a][controllers[a] - 1].isStopped
  /\ CurrentToken(a) = FreshToken
  /\ lastCmd[a] = NoCmd

RunEnded(a) ==
  /\ Started(a)
  /\ loops[a][controllers[a]].pc = "done"
  /\ jobs[a].status \in {"completed", "stopped"}

\* C30: a call of pauseJob or resumeJob on an account whose run has ended
\* leaves the status of its job as it is.
C30_EndedRunIgnoresPauseResume ==
  [][\A a \in Accounts :
       (RunEnded(a) /\ (CallPause(a) \/ CallResume(a))) =>
         jobs'[a].status = jobs[a].status]_vars


\* C31: in every state, an account whose status is completed has
\* progress.current = progress.total = length(results), no call in flight
\* and no loop that has not exited.
C31_CompletedMeansAllDone ==
  \A a \in Accounts :
    (Started(a) /\ jobs[a].status = "completed") =>
      /\ jobs[a].progress.current = jobs[a].progress.total
      /\ jobs[a].progress.total = Len(jobs[a].results)
      /\ InFlight(a) = {}
      /\ LoopsExited(a)


\* C32: in every state, an account whose status is waiting has
\* 0 < progress.current < progress.total, 1 <= countdown <= delay, and no
\* call in flight.
C32_WaitingMeansCountdown ==
  \A a \in Accounts :
    (Started(a) /\ jobs[a].status = "waiting") =>
      /\ 0 < jobs[a].progress.current
      /\ jobs[a].progress.current < jobs[a].progress.total
      /\ 1 <= jobs[a].countdown
      /\ jobs[a].countdown <= jobs[a].delay
      /\ InFlight(a) = {}


\* C33: in every state where the loop of an account's current run has
\* exited, the countdown of its job is 0.
C33_ExitedLoopNoCountdown ==
  \A a \in Accounts :
    (Started(a) /\ loops[a][controllers[a]].pc = "done") =>
      jobs[a].countdown = 0


\* the orders in which the accepted requests can be handled one at a time
RequestOrders ==
  {o \in [1..Len(requests) -> 1..Len(requests)] :
     \A j, k \in 1..Len(requests) : o[j] = o[k] => j = k}

\* the list after the requests are handled one at a time in order o,
\* starting from the k-th of them, on the list accounts
RECURSIVE OneAtATime(_, _, _)
OneAtATime(o, k, accounts) ==
  IF k > Len(requests) THEN accounts
  ELSE OneAtATime(o, k + 1, Mutate(requests[o[k]], accounts))

AllAnswered == requests # <<>> /\ \A r \in 1..Len(requests) : requests[r].pc = "done"

\* C34: when every accepted request has been answered, the stored list is
\* the one that handling the requests one at a time, in some order, on a
\* list that starts empty would leave: it reflects every mutation.
C34_NoLostAccountUpdate ==
  AllAnswered =>
    /\ accountsFile.exists
    /\ \E o \in RequestOrders : accountsFile.accounts = OneAtATime(o, 1, <<>>)

====
